---------------------------- MODULE Spec2Model ----------------------------
(***************************************************************************)
(* Model of package doc (src/doc.go): plain-text extraction from a Word    *)
(* .doc binary.  ParseDoc runs getFib, getActiveTable, getClx and getText; *)
(* getText reads one byte range per piece of the piece table and hands it  *)
(* to translateCompressedText or translateUncompressedText, which append   *)
(* the decoded text to one bytes.Buffer.                                   *)
(*                                                                         *)
(* Bytes and 16-bit code units are naturals; the output buffer is a        *)
(* sequence of bytes (the UTF-8 text the caller reads).                    *)
(*                                                                         *)
(* Two specifications share the decoder:                                   *)
(*   Spec        one run of ParseDoc over a container, one step per stage  *)
(*               and per iteration of getText's loop;                      *)
(*   SpecDecode  one call of translateText on a synthetic piece, one step  *)
(*               per iteration of the decoder's loop.                      *)
(***************************************************************************)
EXTENDS Integers, Sequences, FiniteSets, TLC

VARIABLES
    (* ---- ParseDoc ---- *)
    pc,            \* position of the run
    isReaderAt,    \* the io.Reader given to ParseDoc implements io.ReaderAt
    ra,            \* ParseDoc's outer local ra, which mscfb.New is given
    wordDoc,       \* the "WordDocument" stream: [found, bytes], or NoStream
    table0,        \* the "0Table" stream is in the container
    table1,        \* the "1Table" stream is in the container
    fib,           \* result of getFib: [fWhichTblStm], or NoFib
    table,         \* ParseDoc's local table: "0Table", "1Table" or "nil"
    clx,           \* result of getClx: [nPcd, cp0], or NoClx; its piece-table
                   \* entries are drawn as getText's loop reads them
    calls,         \* the stages invoked so far, in order
    result,        \* what ParseDoc returned: [reader, err]
    (* ---- getText ---- *)
    i,             \* loop index of getText
    cp,            \* aCP[i] of the current iteration
    last,          \* what the last iteration of getText's loop did, and the
                   \* sum of the character counts of the iterations so far
    buf,           \* the bytes.Buffer the decoders append to
    (* ---- translateCompressedText / translateUncompressedText ---- *)
    b,             \* the bytes of the piece being decoded
    fCompressed,   \* the piece's compression flag
    cIndex,        \* loop index into b
    isFieldChar,   \* local isFieldChar
    fieldLevel,    \* local fieldLevel
    units,         \* the character values b was encoded from
    steps          \* one record per loop iteration done

vars == <<pc, isReaderAt, ra, wordDoc, table0, table1, fib, table, clx, calls,
          result, i, cp, last, buf, b, fCompressed, cIndex, isFieldChar,
          fieldLevel, units, steps>>

parseVars == <<isReaderAt, ra, wordDoc, table0, table1, fib, table, clx, calls,
               result, i, cp, last>>

(***************************************************************************)
(* Bounds of the model.                                                    *)
(***************************************************************************)
MaxLen == 2        \* SpecDecode: longest sequence over all of UnitValues
MaxFieldLen == 4   \* SpecDecode: longest sequence over FieldChars
DocLen == 2        \* Spec: bytes in the WordDocument stream
MaxPieces == 2     \* Spec: most pieces in the piece table
MaxCP == 2         \* Spec: largest character position in aCP
MaxFc == 2         \* Spec: largest masked fc value of a piece descriptor

(***************************************************************************)
(* Program constants.                                                      *)
(***************************************************************************)
FieldBegin == 19       \* 0x13
FieldSep == 20         \* 0x14
FieldEnd == 21         \* 0x15
TableSep == 7
RuneSelf == 128        \* 0x80: first byte value that is not ASCII
GBKLead == 161         \* 0xA1
FcFlagBit == 1073741824 \* 2^30, the fCompressed bit of a raw fc value

Range(s) == {s[k] : k \in 1..Len(s)}

SeqsUpTo(S, n) == UNION {[1..k -> S] : k \in 0..n}

RECURSIVE Flatten(_)
Flatten(ss) == IF ss = <<>> THEN <<>> ELSE Head(ss) \o Flatten(Tail(ss))

IsPrefix(s, t) == Len(s) <= Len(t) /\ SubSeq(t, 1, Len(s)) = s

(***************************************************************************)
(* unicode/utf8, as far as 16-bit values go.                               *)
(***************************************************************************)
ValidRune(r) == (0 <= r /\ r < 55296) \/ (57343 < r /\ r <= 1114111)

EncodeRune(r) ==
    IF r < 128 THEN <<r>>
    ELSE IF r < 2048 THEN <<192 + (r \div 64), 128 + (r % 64)>>
    ELSE IF r >= 55296 /\ r <= 57343 THEN <<239, 191, 189>>   \* RuneError
    ELSE <<224 + (r \div 4096), 128 + ((r \div 64) % 64), 128 + (r % 64)>>

(***************************************************************************)
(* replaceCompressed's switch: byte -> code point.                         *)
(***************************************************************************)
cp1252 ==
    [c \in (130..140) \cup (145..156) \cup {159} |->
        CASE c = 130 -> 8218  [] c = 131 -> 402   [] c = 132 -> 8222
          [] c = 133 -> 8230  [] c = 134 -> 8224  [] c = 135 -> 8225
          [] c = 136 -> 710   [] c = 137 -> 8240  [] c = 138 -> 352
          [] c = 139 -> 8249  [] c = 140 -> 338   [] c = 145 -> 8216
          [] c = 146 -> 8217  [] c = 147 -> 8220  [] c = 148 -> 8221
          [] c = 149 -> 8226  [] c = 150 -> 8211  [] c = 151 -> 8212
          [] c = 152 -> 732   [] c = 153 -> 8482  [] c = 154 -> 353
          [] c = 155 -> 8250  [] c = 156 -> 339   [] c = 159 -> 376]

(***************************************************************************)
(* The GBK decoder's Transform on the one-byte input {char}, atEOF false:  *)
(* ASCII decodes to itself and 0x80 to the euro sign; a lead byte          *)
(* 0x81..0xFE with no trail byte is ErrShortSrc (nothing consumed); 0xFF   *)
(* is no GBK byte and decodes to U+FFFD.                                   *)
(***************************************************************************)
gbkTransform(char) ==
    IF char < 128
      THEN [nDst |-> 1, nSrc |-> 1, err |-> "nil", output |-> <<char>>]
    ELSE IF char = 128
      THEN [nDst |-> 3, nSrc |-> 1, err |-> "nil", output |-> <<226, 130, 172>>]
    ELSE IF char < 255
      THEN [nDst |-> 0, nSrc |-> 0, err |-> "ErrShortSrc", output |-> <<>>]
    ELSE [nDst |-> 3, nSrc |-> 1, err |-> "nil", output |-> <<239, 191, 189>>]

(* A fallback that tries the GBK decoder on every high byte. *)
handleANSINoGuard(char) ==
    LET t == gbkTransform(char)
    IN  IF t.err = "nil" /\ t.nSrc > 0 /\ t.nDst > 0 THEN t.output
                                                      ELSE <<char>>

handleANSICharacter(char) ==
    IF char >= GBKLead
      THEN LET t == gbkTransform(char)
           IN  IF t.err = "nil" /\ t.nSrc > 0 /\ t.nDst > 0
                 THEN t.output
                 ELSE <<char>>
      ELSE <<char>>

(* A replaceCompressed whose switch has no case. *)
replaceCompressedRaw(char) ==
    IF char >= RuneSelf THEN handleANSICharacter(char) ELSE <<char>>

replaceCompressed(char) ==
    IF char \in DOMAIN cp1252 THEN EncodeRune(cp1252[char])
    ELSE IF char >= RuneSelf THEN handleANSICharacter(char)
    ELSE <<char>>

(* The non-printable values each decoder skips. *)
skipCompressedNoCR(c) == c < 32 /\ c # 9 /\ c # 10

skipCompressed(c) == c < 32 /\ c # 9 /\ c # 10 /\ c # 13

skipUncompressedTab(char) == char < 32 /\ char # 10 /\ char # 13

skipUncompressed(char) == char < 32 /\ char # 9 /\ char # 10 /\ char # 13

(* A decoder that leaves field-code mode on at the separator 0x14. *)
compressedCharSepIgnored(st, c) ==
    IF c = FieldBegin
      THEN [isFieldChar |-> TRUE, fieldLevel |-> st.fieldLevel + 1, out |-> <<>>]
    ELSE IF c = FieldSep
      THEN [isFieldChar |-> st.isFieldChar, fieldLevel |-> st.fieldLevel,
            out |-> <<>>]
    ELSE IF c = FieldEnd
      THEN [isFieldChar |-> FALSE, fieldLevel |-> st.fieldLevel - 1, out |-> <<>>]
    ELSE IF st.isFieldChar
      THEN [isFieldChar |-> TRUE, fieldLevel |-> st.fieldLevel, out |-> <<>>]
    ELSE IF c = TableSep
      THEN [isFieldChar |-> FALSE, fieldLevel |-> st.fieldLevel, out |-> <<32>>]
    ELSE IF skipCompressed(c)
      THEN [isFieldChar |-> FALSE, fieldLevel |-> st.fieldLevel, out |-> <<>>]
    ELSE [isFieldChar |-> FALSE, fieldLevel |-> st.fieldLevel,
          out |-> replaceCompressed(c)]

(***************************************************************************)
(* One iteration of translateCompressedText's loop on byte c, from the     *)
(* locals st = [isFieldChar, fieldLevel]: the new locals and the bytes     *)
(* written to buf.                                                         *)
(***************************************************************************)
compressedChar(st, c) ==
    IF c = FieldBegin
      THEN [isFieldChar |-> TRUE, fieldLevel |-> st.fieldLevel + 1, out |-> <<>>]
    ELSE IF c = FieldSep
      THEN [isFieldChar |-> FALSE, fieldLevel |-> st.fieldLevel, out |-> <<>>]
    ELSE IF c = FieldEnd
      THEN [isFieldChar |-> FALSE, fieldLevel |-> st.fieldLevel - 1, out |-> <<>>]
    ELSE IF st.isFieldChar
      THEN [isFieldChar |-> TRUE, fieldLevel |-> st.fieldLevel, out |-> <<>>]
    ELSE IF c = TableSep
      THEN [isFieldChar |-> FALSE, fieldLevel |-> st.fieldLevel, out |-> <<32>>]
    ELSE IF skipCompressed(c)
      THEN [isFieldChar |-> FALSE, fieldLevel |-> st.fieldLevel, out |-> <<>>]
    ELSE [isFieldChar |-> FALSE, fieldLevel |-> st.fieldLevel,
          out |-> replaceCompressed(c)]

(***************************************************************************)
(* One iteration of translateUncompressedText's loop on code unit char.    *)
(***************************************************************************)
uncompressedChar(st, char) ==
    IF char = FieldBegin
      THEN [isFieldChar |-> TRUE, fieldLevel |-> st.fieldLevel + 1, out |-> <<>>]
    ELSE IF char = FieldSep
      THEN [isFieldChar |-> FALSE, fieldLevel |-> st.fieldLevel, out |-> <<>>]
    ELSE IF char = FieldEnd
      THEN [isFieldChar |-> FALSE, fieldLevel |-> st.fieldLevel - 1, out |-> <<>>]
    ELSE IF st.isFieldChar
      THEN [isFieldChar |-> TRUE, fieldLevel |-> st.fieldLevel, out |-> <<>>]
    ELSE IF char = TableSep
      THEN [isFieldChar |-> FALSE, fieldLevel |-> st.fieldLevel, out |-> <<32>>]
    ELSE IF skipUncompressed(char)
      THEN [isFieldChar |-> FALSE, fieldLevel |-> st.fieldLevel, out |-> <<>>]
    ELSE IF char <= 127
      THEN [isFieldChar |-> FALSE, fieldLevel |-> st.fieldLevel, out |-> <<char>>]
    ELSE [isFieldChar |-> FALSE, fieldLevel |-> st.fieldLevel,
          out |-> IF ValidRune(char) THEN EncodeRune(char) ELSE <<>>]

WritePrepend(buffer, p) == p \o buffer

(* buf.Write(p) and buf.WriteByte(c): append to the buffer. *)
Write(buffer, p) == buffer \o p

Uint16BigEndian(bs, k) == 256 * bs[k + 1] + bs[k + 2]

(* binary.LittleEndian.Uint16(bs[k : k+2]), k a 0-based offset *)
Uint16(bs, k) == bs[k + 1] + 256 * bs[k + 2]

(* Locals that keep what the previous call left in them. *)
fieldCarried == [isFieldChar |-> isFieldChar, fieldLevel |-> fieldLevel]

(* The locals both decoders declare on entry. *)
fieldInit == [isFieldChar |-> FALSE, fieldLevel |-> 0]

(***************************************************************************)
(* The whole loops, from the locals st at 0-based offset k: the final      *)
(* locals and everything written.                                          *)
(***************************************************************************)
RECURSIVE compressedLoop(_, _, _)
compressedLoop(bs, k, st) ==
    IF k >= Len(bs)
      THEN [isFieldChar |-> st.isFieldChar, fieldLevel |-> st.fieldLevel,
            out |-> <<>>]
      ELSE LET r    == compressedChar(st, bs[k + 1])
               rest == compressedLoop(bs, k + 1, r)
           IN  [rest EXCEPT !.out = r.out \o rest.out]

RECURSIVE uncompressedLoop(_, _, _)
uncompressedLoop(bs, k, st) ==
    IF k >= Len(bs) - 1
      THEN [isFieldChar |-> st.isFieldChar, fieldLevel |-> st.fieldLevel,
            out |-> <<>>]
      ELSE LET r    == uncompressedChar(st, Uint16(bs, k))
               rest == uncompressedLoop(bs, k + 2, r)
           IN  [rest EXCEPT !.out = r.out \o rest.out]

translateCompressedText(bs) == compressedLoop(bs, 0, fieldInit)

translateUncompressedText(bs) == uncompressedLoop(bs, 0, fieldInit)

translateText(bs, compressed) ==
    IF compressed THEN translateCompressedText(bs)
                  ELSE translateUncompressedText(bs)

(***************************************************************************)
(* SpecDecode: translateText called on one synthetic piece.                *)
(***************************************************************************)
(* nil pointers: no stream, no FIB, no CLX. *)
NoStream == [found |-> FALSE, bytes |-> <<>>]
NoFib == [fWhichTblStm |-> -1]
NoClx == [nPcd |-> -1, cp0 |-> -1]
NoResult == [reader |-> "none", err |-> "none"]
NoPiece == [idx |-> -1, outcome |-> "none", sum |-> 0]

Markers == {FieldBegin, FieldSep, FieldEnd}

(* Byte values the decoders tell apart: controls, markers, ASCII, the      *)
(* cp1252 table, the high bytes below and above 0xA1.                      *)
ByteValues == {1, 7, 9, 10, 13, 19, 20, 21, 32, 97, 127, 128, 147, 150, 161, 255}

(* 16-bit code units: the same, and units above 0xFF (0x0113, 0x4E2D and   *)
(* the surrogate 0xD800).                                                  *)
UnitValues == ByteValues \cup {275, 20013, 55296}

FieldChars == {FieldBegin, FieldSep, FieldEnd, 97}

FieldExample == <<19, 120, 120, 120, 20, 121, 121, 21>>

NestedExample == <<19, 97, 19, 98, 20, 99, 21, 100, 20, 101, 21>>

(* Every byte value, as a piece of one character. *)
AllBytes == 0..255

DecodeInputs(values) ==
    SeqsUpTo(values, MaxLen) \cup SeqsUpTo(FieldChars, MaxFieldLen)
        \cup {FieldExample, NestedExample} \cup {<<c>> : c \in AllBytes}

(* A piece's bytes: one byte per character, or each character as a         *)
(* little-endian 16-bit unit.                                              *)
RECURSIVE EncodePiece(_, _)
EncodePiece(us, compressed) ==
    IF us = <<>> THEN <<>>
    ELSE (IF compressed THEN <<Head(us)>>
                        ELSE <<Head(us) % 256, Head(us) \div 256>>)
         \o EncodePiece(Tail(us), compressed)

InitDecode ==
    /\ pc = "translateText"
    /\ fCompressed \in BOOLEAN
    /\ units \in DecodeInputs(IF fCompressed THEN ByteValues ELSE UnitValues)
    /\ b = EncodePiece(units, fCompressed)
    /\ buf = <<>>
    /\ cIndex = 0
    /\ isFieldChar = FALSE
    /\ fieldLevel = 0
    /\ steps = <<>>
    /\ isReaderAt = TRUE
    /\ ra = "unset"
    /\ wordDoc = NoStream
    /\ table0 = FALSE
    /\ table1 = FALSE
    /\ fib = NoFib
    /\ table = "nil"
    /\ clx = NoClx
    /\ calls = <<>>
    /\ result = NoResult
    /\ i = 0
    /\ cp = 0
    /\ last = NoPiece

(* translateText dispatches; the decoder declares its locals. *)
TranslateEnter ==
    /\ pc = "translateText"
    /\ pc' = IF fCompressed THEN "compressedLoop" ELSE "uncompressedLoop"
    /\ isFieldChar' = fieldInit.isFieldChar
    /\ fieldLevel' = fieldInit.fieldLevel
    /\ cIndex' = 0
    /\ UNCHANGED <<parseVars, buf, b, fCompressed, units, steps>>

CompressedIter ==
    /\ pc = "compressedLoop"
    /\ cIndex < Len(b)
    /\ LET c == b[cIndex + 1]
           r == compressedChar([isFieldChar |-> isFieldChar,
                                fieldLevel |-> fieldLevel], c)
       IN  /\ isFieldChar' = r.isFieldChar
           /\ fieldLevel' = r.fieldLevel
           /\ buf' = Write(buf, r.out)
           /\ steps' = Append(steps, [char |-> c, wasField |-> isFieldChar,
                                      out |-> r.out])
    /\ cIndex' = cIndex + 1
    /\ UNCHANGED <<parseVars, pc, b, fCompressed, units>>

UncompressedIter ==
    /\ pc = "uncompressedLoop"
    /\ cIndex < Len(b) - 1
    /\ LET char == Uint16(b, cIndex)
           r == uncompressedChar([isFieldChar |-> isFieldChar,
                                  fieldLevel |-> fieldLevel], char)
       IN  /\ isFieldChar' = r.isFieldChar
           /\ fieldLevel' = r.fieldLevel
           /\ buf' = Write(buf, r.out)
           /\ steps' = Append(steps, [char |-> char, wasField |-> isFieldChar,
                                      out |-> r.out])
    /\ cIndex' = cIndex + 2
    /\ UNCHANGED <<parseVars, pc, b, fCompressed, units>>

(* The loop is over: return nil. *)
TranslateReturn ==
    /\ \/ pc = "compressedLoop" /\ cIndex >= Len(b)
       \/ pc = "uncompressedLoop" /\ cIndex >= Len(b) - 1
    /\ pc' = "returned"
    /\ UNCHANGED <<parseVars, buf, b, fCompressed, cIndex, isFieldChar,
                   fieldLevel, units, steps>>

NextDecode ==
    \/ TranslateEnter
    \/ CompressedIter
    \/ UncompressedIter
    \/ TranslateReturn

SpecDecode == InitDecode /\ [][NextDecode]_vars

(***************************************************************************)
(* Spec: one run of ParseDoc.                                              *)
(***************************************************************************)
DocBytes == {0, 19, 97}

Docs == {[found |-> TRUE, bytes |-> bs] : bs \in [1..DocLen -> DocBytes]}

wrapError(e) == "Error processing file: " \o e

(* getFib: fails on a missing or short WordDocument stream, else returns   *)
(* the FIB with the table-stream selector bit sel of the header.           *)
getFib(doc, headerOk, sel) ==
    IF doc = NoStream THEN [fib |-> NoFib, err |-> "errDocEmpty"]
    ELSE IF ~headerOk THEN [fib |-> NoFib, err |-> "errDocShort"]
    ELSE [fib |-> [fWhichTblStm |-> sel], err |-> "nil"]

(* The *mscfb.File getWordDocAndTables found for a table stream. *)
StreamPtr(present, name) == IF present THEN name ELSE "nil"

getActiveTableFallback(t0, t1, f) ==
    IF f.fWhichTblStm = 0 THEN (IF t0 # "nil" THEN t0 ELSE t1)
                          ELSE (IF t1 # "nil" THEN t1 ELSE t0)

getActiveTableSwapped(t0, t1, f) == IF f.fWhichTblStm = 0 THEN t1 ELSE t0

getActiveTable(t0, t1, f) == IF f.fWhichTblStm = 0 THEN t0 ELSE t1

(* The raw 32-bit fc values of a piece descriptor. *)
RawFcs == {flag * FcFlagBit + off : flag \in {0, 1}, off \in 0..MaxFc}

(* getClx unpacks a raw fc: bit 30 is fCompressed, the bits below are fc. *)
decodeFc(raw) ==
    [fc |-> raw % FcFlagBit, fCompressed |-> (raw \div FcFlagBit) % 2 = 1]

pieceCharsInclusive(c, cNext) == cNext - c + 1

(* The character count getText gives a piece: cpNext - cp. *)
pieceChars(c, cNext) == cNext - c

PieceRangeNoHalf(pcd, c, cNext) ==
    IF pcd.fCompressed
      THEN [start |-> pcd.fc, end |-> pcd.fc + pieceChars(c, cNext)]
      ELSE [start |-> pcd.fc, end |-> pcd.fc + 2 * pieceChars(c, cNext)]

(* getText's start and end of a piece. *)
PieceRange(pcd, c, cNext) ==
    IF pcd.fCompressed
      THEN [start |-> pcd.fc \div 2,
            end |-> (pcd.fc \div 2) + pieceChars(c, cNext)]
      ELSE [start |-> pcd.fc, end |-> pcd.fc + 2 * pieceChars(c, cNext)]

(* A ReadAt that hands back the bytes there are and no error. *)
ReadAtShort(doc, n, off) ==
    [bytes |-> SubSeq(doc.bytes, off + 1,
                      IF off + n > Len(doc.bytes) THEN Len(doc.bytes)
                                                  ELSE off + n),
     err |-> "nil"]

(* wordDoc.ReadAt(b, off) with len(b) = n: mscfb seeks to off, which fails *)
(* at or past the stream's size, and reports a read of fewer than n bytes  *)
(* as an error.                                                            *)
ReadAt(doc, n, off) ==
    IF off >= Len(doc.bytes) THEN [bytes |-> <<>>, err |-> "ErrSeek"]
    ELSE IF off + n > Len(doc.bytes) THEN [bytes |-> <<>>, err |-> "EOF"]
    ELSE [bytes |-> SubSeq(doc.bytes, off + 1, off + n), err |-> "nil"]

Init ==
    /\ pc = "ParseDoc"
    /\ isReaderAt \in BOOLEAN
    /\ ra = "unset"
    /\ wordDoc \in Docs \cup {NoStream}
    /\ table0 \in BOOLEAN
    /\ table1 \in BOOLEAN
    /\ fib = NoFib
    /\ table = "nil"
    /\ clx = NoClx
    /\ calls = <<>>
    /\ result = NoResult
    /\ i = 0
    /\ cp = 0
    /\ last = NoPiece
    /\ buf = <<>>
    /\ b = <<>>
    /\ fCompressed = FALSE
    /\ cIndex = 0
    /\ isFieldChar = FALSE
    /\ fieldLevel = 0
    /\ units = <<>>
    /\ steps = <<>>

decodeVars == <<b, fCompressed, cIndex, isFieldChar, fieldLevel, units, steps>>

Return(reader, err) ==
    /\ result' = [reader |-> reader, err |-> err]
    /\ pc' = "done"

(* ra after "ra, ok := r.(io.ReaderAt)" and the if that follows it: the    *)
(* reader itself when it is an io.ReaderAt; else the nil interface, since  *)
(* the buffer toMemoryBuffer returns is bound to a new ra that shadows the *)
(* outer one inside the if block.                                          *)
outerRa(ok) == IF ok THEN "r" ELSE "nil"

(* ParseDoc up to mscfb.New.  A failed toMemoryBuffer returns its error;   *)
(* mscfb.New on the nil interface panics at its first ReadAt.              *)
OpenContainer ==
    /\ pc = "ParseDoc"
    /\ ra' = outerRa(isReaderAt)
    /\ \E readOk \in BOOLEAN, cfbOk \in BOOLEAN :
          IF ~isReaderAt /\ ~readOk
            THEN Return("nil", wrapError("read"))
          ELSE IF ra' = "nil"
            THEN pc' = "panic" /\ UNCHANGED result
          ELSE IF ~cfbOk
            THEN Return("nil", wrapError("mscfb"))
          ELSE pc' = "getFib" /\ UNCHANGED result
    /\ UNCHANGED <<isReaderAt, wordDoc, table0, table1, fib, table, clx, calls,
                   i, cp, last, buf, decodeVars>>

GetFib ==
    /\ pc = "getFib"
    /\ calls' = Append(calls, <<"getFib", "WordDocument">>)
    /\ \E headerOk \in BOOLEAN, sel \in {0, 1} :
          LET r == getFib(wordDoc, headerOk, sel)
          IN  IF r.err # "nil"
                THEN Return("nil", wrapError(r.err)) /\ UNCHANGED fib
                ELSE fib' = r.fib /\ pc' = "getActiveTable" /\ UNCHANGED result
    /\ UNCHANGED <<isReaderAt, ra, wordDoc, table0, table1, table, clx,
                   i, cp, last, buf, decodeVars>>

GetActiveTable ==
    /\ pc = "getActiveTable"
    /\ calls' = Append(calls, <<"getActiveTable", fib.fWhichTblStm>>)
    /\ LET t == getActiveTable(StreamPtr(table0, "0Table"),
                               StreamPtr(table1, "1Table"), fib)
       IN  /\ table' = t
           /\ IF t = "nil"
                THEN Return("nil", wrapError("errTable"))
                ELSE pc' = "getClx" /\ UNCHANGED result
    /\ UNCHANGED <<isReaderAt, ra, wordDoc, table0, table1, fib, clx,
                   i, cp, last, buf, decodeVars>>

(* getClx parses the piece table out of the stream it is handed: it fails, *)
(* or returns nPcd piece descriptors and nPcd + 1 character positions, the *)
(* first of them cp0.                                                      *)
GetClx ==
    /\ pc = "getClx"
    /\ calls' = Append(calls, <<"getClx", table>>)
    /\ \E ok \in BOOLEAN, n \in 0..MaxPieces, cp0 \in 0..MaxCP :
          IF ~ok
            THEN Return("nil", wrapError("clx")) /\ UNCHANGED clx
            ELSE /\ clx' = [nPcd |-> n, cp0 |-> cp0]
                 /\ pc' = "getText"
                 /\ UNCHANGED result
    /\ UNCHANGED <<isReaderAt, ra, wordDoc, table0, table1, fib, table,
                   i, cp, last, buf, decodeVars>>

(* getText is entered: an empty buffer, i := 0. *)
GetTextCall ==
    /\ pc = "getText"
    /\ calls' = Append(calls, <<"getText", "WordDocument">>)
    /\ buf' = <<>>
    /\ i' = 0
    /\ cp' = clx.cp0
    /\ pc' = "getTextLoop"
    /\ UNCHANGED <<isReaderAt, ra, wordDoc, table0, table1, fib, table, clx,
                   result, last, decodeVars>>

(* One iteration of getText's loop: aPcd[i] = decodeFc(raw), aCP[i] = cp   *)
(* and aCP[i+1] = cpNext.  make panics on a negative length; a failed      *)
(* ReadAt returns (nil, err); else the piece is decoded onto buf.          *)
GetTextIter ==
    /\ pc = "getTextLoop"
    /\ i < clx.nPcd
    /\ \E raw \in RawFcs, cpNext \in 0..MaxCP :
          LET pcd == decodeFc(raw)
              r   == PieceRange(pcd, cp, cpNext)
              n   == r.end - r.start
              rd  == ReadAt(wordDoc, n, r.start)
              t   == translateText(rd.bytes, pcd.fCompressed)
              it  == [idx |-> i, raw |-> raw, cp |-> cp, cpNext |-> cpNext,
                      off |-> r.start, n |-> n,
                      sum |-> last.sum + pieceChars(cp, cpNext),
                      entryField |-> isFieldChar, entryLevel |-> fieldLevel,
                      outcome |-> "ok", text |-> <<>>]
          IN  IF n < 0
                THEN /\ pc' = "panic"
                     /\ last' = [it EXCEPT !.outcome = "panic"]
                     /\ UNCHANGED <<result, buf, i, cp, b, fCompressed,
                                    isFieldChar, fieldLevel>>
              ELSE IF rd.err # "nil"
                THEN /\ Return("nil", rd.err)
                     /\ last' = [it EXCEPT !.outcome = "err"]
                     /\ UNCHANGED <<buf, i, cp, b, fCompressed,
                                    isFieldChar, fieldLevel>>
              ELSE /\ buf' = Write(buf, t.out)
                   /\ b' = rd.bytes
                   /\ fCompressed' = pcd.fCompressed
                   /\ isFieldChar' = t.isFieldChar
                   /\ fieldLevel' = t.fieldLevel
                   /\ last' = [it EXCEPT !.text = t.out]
                   /\ i' = i + 1
                   /\ cp' = cpNext
                   /\ UNCHANGED <<pc, result>>
    /\ UNCHANGED <<isReaderAt, ra, wordDoc, table0, table1, fib, table, clx, calls,
                   cIndex, units, steps>>

GetTextReturn ==
    /\ pc = "getTextLoop"
    /\ i >= clx.nPcd
    /\ Return("buf", "nil")
    /\ UNCHANGED <<isReaderAt, ra, wordDoc, table0, table1, fib, table, clx, calls,
                   i, cp, last, buf, decodeVars>>

Next ==
    \/ OpenContainer
    \/ GetFib
    \/ GetActiveTable
    \/ GetClx
    \/ GetTextCall
    \/ GetTextIter
    \/ GetTextReturn

Spec == Init /\ [][Next]_vars

(***************************************************************************)
(* Claims about the decoders (SpecDecode).                                 *)
(***************************************************************************)
Printable == 32..127

(* units is 0x13, I, 0x14, R, 0x15 with the separator at position k, I and *)
(* R free of markers, R printable.                                         *)
IsFieldPiece(us, k) ==
    /\ 1 < k /\ k < Len(us)
    /\ us[1] = FieldBegin /\ us[k] = FieldSep /\ us[Len(us)] = FieldEnd
    /\ \A j \in 2..(k - 1) : us[j] \notin Markers
    /\ \A j \in (k + 1)..(Len(us) - 1) : us[j] \in Printable

(* C1: a piece 0x13, I, 0x14, R, 0x15 (I, R without markers, R printable)  *)
(* decodes to exactly R on both paths; [0x13,x,x,x,0x14,y,y,0x15] decodes  *)
(* to "yy".                                                                *)
C1_FieldSuppression ==
    pc = "returned" =>
        /\ \A k \in 1..Len(units) :
              IsFieldPiece(units, k) =>
                  buf = SubSeq(units, k + 1, Len(units) - 1)
        /\ units = FieldExample => buf = <<121, 121>>

C1_Witness ==
    /\ pc = "returned"
    /\ ~fCompressed
    /\ units = FieldExample
    /\ buf = <<121, 121>>

(* The open fields after the first n characters of us, outermost first:    *)
(* "instr" between a field's 0x13 and its 0x14, "result" from its 0x14 to  *)
(* its 0x15.                                                               *)
RECURSIVE FieldStack(_, _)
FieldStack(us, n) ==
    IF n = 0 THEN <<>>
    ELSE LET s == FieldStack(us, n - 1)
             c == us[n]
         IN  IF c = FieldBegin THEN Append(s, "instr")
             ELSE IF c = FieldSep /\ s # <<>>
               THEN [s EXCEPT ![Len(s)] = "result"]
             ELSE IF c = FieldEnd /\ s # <<>>
               THEN SubSeq(s, 1, Len(s) - 1)
             ELSE s

(* Every 0x14 and 0x15 of us belongs to an open field and every field is   *)
(* closed.                                                                 *)
WellNested(us) ==
    /\ \A n \in 1..Len(us) :
          LET s == FieldStack(us, n - 1)
          IN  /\ us[n] = FieldSep => (s # <<>> /\ s[Len(s)] = "instr")
              /\ us[n] = FieldEnd => s # <<>>
    /\ FieldStack(us, Len(us)) = <<>>

(* C2: in a piece of properly nested fields the nesting depth is the       *)
(* number of open fields (2 after two consecutive 0x13, 0 only after both  *)
(* 0x15), and no character in the instruction part of its field is         *)
(* emitted.                                                                *)
C2_NestedInstructionSuppressed ==
    WellNested(units) =>
        /\ pc \in {"compressedLoop", "uncompressedLoop", "returned"} =>
              fieldLevel = Len(FieldStack(units, Len(steps)))
        /\ \A p \in 1..Len(steps) :
              LET s == FieldStack(units, p - 1)
              IN  (steps[p].char \notin Markers /\ s # <<>>
                     /\ s[Len(s)] = "instr")
                  => steps[p].out = <<>>

Ascii == Printable \cup {9, 10, 13}

(* C9: a string of printable ASCII, tab, line feed and carriage return,    *)
(* taken as a compressed piece, decodes to itself byte for byte.           *)
C9_AsciiRoundTrip ==
    (pc = "returned" /\ fCompressed /\ Range(units) \subseteq Ascii)
        => buf = units

C9_Witness ==
    /\ pc = "returned"
    /\ fCompressed
    /\ units = <<13, 127>>
    /\ buf = <<13, 127>>

(* C10: outside field-code mode, on both paths, 7 yields one space, 9, 10  *)
(* and 13 are emitted unchanged, and any other value below 32 that is no   *)
(* field marker yields nothing.                                            *)
C10_ControlFiltering ==
    \A p \in 1..Len(steps) :
        LET s == steps[p]
        IN  ~s.wasField =>
              /\ s.char = TableSep => s.out = <<32>>
              /\ s.char \in {9, 10, 13} => s.out = <<s.char>>
              /\ (s.char < 32 /\ s.char \notin Markers \cup {7, 9, 10, 13})
                    => s.out = <<>>

C10_Witness ==
    /\ pc = "returned"
    /\ ~fCompressed
    /\ units = <<7, 1>>
    /\ buf = <<32>>
    /\ steps[2].out = <<>>

(***************************************************************************)
(* Claims about ParseDoc and getText (Spec).                               *)
(***************************************************************************)
IsCompressedRaw(raw) == (raw \div FcFlagBit) % 2 = 1

MaskedFc(raw) == raw % FcFlagBit

(* C3: a piece of character length L = aCP[i+1] - aCP[i] is read at byte   *)
(* offset O for L bytes when compressed, O = masked fc / 2, and for 2L     *)
(* bytes when uncompressed, O = masked fc; the bytes decoded are exactly   *)
(* that range of the WordDocument stream.                                  *)
C3_PieceRange ==
    last.idx >= 0 =>
        LET L == last.cpNext - last.cp
            O == IF IsCompressedRaw(last.raw) THEN MaskedFc(last.raw) \div 2
                                              ELSE MaskedFc(last.raw)
            n == IF IsCompressedRaw(last.raw) THEN L ELSE 2 * L
        IN  /\ last.off = O
            /\ last.n = n
            /\ last.outcome = "ok" =>
                  /\ b = SubSeq(wordDoc.bytes, O + 1, O + n)
                  /\ fCompressed = IsCompressedRaw(last.raw)

C3_Witness ==
    /\ last.idx = 1
    /\ last.outcome = "ok"
    /\ last.raw = FcFlagBit + 2
    /\ last.cpNext - last.cp = 1
    /\ b = <<wordDoc.bytes[2]>>

(* C4: a piece whose byte range ends past the WordDocument stream makes    *)
(* getText return (nil, error) at that piece: no later piece is read and   *)
(* the text decoded so far is not returned.                                *)
C4_OutOfRangePiece ==
    (last.idx >= 0 /\ last.n >= 0 /\ last.off + last.n > Len(wordDoc.bytes))
        => /\ pc = "done"
           /\ last.outcome = "err"
           /\ result.reader = "nil"
           /\ result.err \notin {"nil", "none"}
           /\ i = last.idx

C4_Witness ==
    /\ pc = "done"
    /\ last.idx = 1
    /\ last.off < Len(wordDoc.bytes)
    /\ last.off + last.n > Len(wordDoc.bytes)
    /\ buf # <<>>
    /\ result.reader = "nil"

StageOrder == <<"getFib", "getActiveTable", "getClx", "getText">>

Called == [k \in 1..Len(calls) |-> calls[k][1]]

SelectedPresent == IF fib.fWhichTblStm = 0 THEN table0 ELSE table1

SelectedName == IF fib.fWhichTblStm = 0 THEN "0Table" ELSE "1Table"

(* C5: the stages run in the order getFib, getActiveTable, getClx,         *)
(* getText; when the table stream the FIB selects is absent ParseDoc       *)
(* returns errTable and neither getClx nor getText is invoked.             *)
C5_MissingTableStream ==
    /\ IsPrefix(Called, StageOrder)
    /\ (Len(calls) >= 2 /\ ~SelectedPresent)
          => /\ pc = "done"
             /\ result = [reader |-> "nil", err |-> wrapError("errTable")]
             /\ Called = <<"getFib", "getActiveTable">>

C5_Witness ==
    /\ pc = "done"
    /\ fib.fWhichTblStm = 1
    /\ table0
    /\ ~table1
    /\ result.err = wrapError("errTable")
    /\ Called = <<"getFib", "getActiveTable">>

(* C6: getActiveTable yields "0Table" exactly when the selector is 0 and   *)
(* "1Table" otherwise, nil when that stream is absent; getClx is only ever *)
(* handed the selected stream.                                             *)
C6_ActiveTable ==
    Len(calls) >= 2 =>
        /\ table = IF SelectedPresent THEN SelectedName ELSE "nil"
        /\ \A k \in 1..Len(calls) :
              calls[k][1] = "getClx" => calls[k][2] = SelectedName

C6_Witness ==
    /\ Len(calls) >= 3
    /\ calls[3] = <<"getClx", "1Table">>
    /\ table0
    /\ fib.fWhichTblStm = 1

(* C7: getText's loop handles piece i and then piece i + 1, each once, and *)
(* appends the decoded text of piece i to the buffer: the buffer only      *)
(* grows at its end.                                                       *)
C7_OrderedAppend ==
    [][/\ IsPrefix(buf, buf')
       /\ last' # last =>
             /\ pc = "getTextLoop"
             /\ last'.idx = i
             /\ last'.outcome = "ok" =>
                   /\ i' = i + 1
                   /\ pc' = "getTextLoop"
                   /\ buf' = buf \o translateText(
                                SubSeq(wordDoc.bytes, last'.off + 1,
                                       last'.off + last'.n),
                                IsCompressedRaw(last'.raw)).out
       /\ last' = last => (i' = i \/ pc = "getText") /\ buf' = buf]_vars

C7_Witness ==
    /\ pc = "getTextLoop"
    /\ i = 2
    /\ last.idx = 1
    /\ last.off = 0
    /\ buf = <<97>> \o EncodeRune(24929)

(* C8: the text a piece decodes to is the text its own bytes decode to     *)
(* from isFieldChar = FALSE and fieldLevel = 0, whatever state the         *)
(* previous piece ended in.                                                *)
C8_FieldStateReset ==
    (last.idx >= 0 /\ last.outcome = "ok") =>
        last.text =
            IF fCompressed
              THEN compressedLoop(b, 0, [isFieldChar |-> FALSE,
                                         fieldLevel |-> 0]).out
              ELSE uncompressedLoop(b, 0, [isFieldChar |-> FALSE,
                                           fieldLevel |-> 0]).out

C8_Witness ==
    /\ last.idx = 1
    /\ last.outcome = "ok"
    /\ last.entryField
    /\ last.entryLevel = 1
    /\ last.text = <<97>>

(***************************************************************************)
(* Claims about character-set translation (SpecDecode).                    *)
(***************************************************************************)
(* Windows-1252, bytes 0x80..0x9F: byte -> Unicode code point. *)
Windows1252 ==
    [c \in {128} \cup (130..140) \cup {142} \cup (145..156) \cup {158, 159} |->
        CASE c = 128 -> 8364  [] c = 130 -> 8218  [] c = 131 -> 402
          [] c = 132 -> 8222  [] c = 133 -> 8230  [] c = 134 -> 8224
          [] c = 135 -> 8225  [] c = 136 -> 710   [] c = 137 -> 8240
          [] c = 138 -> 352   [] c = 139 -> 8249  [] c = 140 -> 338
          [] c = 142 -> 381   [] c = 145 -> 8216  [] c = 146 -> 8217
          [] c = 147 -> 8220  [] c = 148 -> 8221  [] c = 149 -> 8226
          [] c = 150 -> 8211  [] c = 151 -> 8212  [] c = 152 -> 732
          [] c = 153 -> 8482  [] c = 154 -> 353   [] c = 155 -> 8250
          [] c = 156 -> 339   [] c = 158 -> 382   [] c = 159 -> 376]

(* The scalar values a UTF-8 byte sequence of 1..3-byte forms holds. *)
RECURSIVE Utf8Decode(_)
Utf8Decode(bs) ==
    IF bs = <<>> THEN <<>>
    ELSE IF bs[1] < 128
      THEN <<bs[1]>> \o Utf8Decode(Tail(bs))
    ELSE IF bs[1] >= 192 /\ bs[1] < 224 /\ Len(bs) >= 2
            /\ bs[2] \in 128..191
      THEN <<(bs[1] - 192) * 64 + (bs[2] - 128)>>
           \o Utf8Decode(SubSeq(bs, 3, Len(bs)))
    ELSE IF bs[1] >= 224 /\ bs[1] < 240 /\ Len(bs) >= 3
            /\ bs[2] \in 128..191 /\ bs[3] \in 128..191
      THEN <<(bs[1] - 224) * 4096 + (bs[2] - 128) * 64 + (bs[3] - 128)>>
           \o Utf8Decode(SubSeq(bs, 4, Len(bs)))
    ELSE <<-1>>

(* The bytes replaceCompressed's switch has a case for. *)
TableBytes == (130..140) \cup (145..156) \cup {159}

(* A loop iteration that got past the field and control tests. *)
NotSuppressed(s) ==
    /\ ~s.wasField
    /\ s.char \notin Markers
    /\ ~(s.char < 32 /\ s.char \notin {7, 9, 10, 13})

(* C11: on the compressed path every byte of the fixed table is emitted as *)
(* the UTF-8 form of its one Windows-1252 code point; 0x93 gives U+201C    *)
(* and 0x96 gives U+2013.                                                  *)
C11_Windows1252Mapping ==
    fCompressed =>
        \A p \in 1..Len(steps) :
            LET s == steps[p]
            IN  (~s.wasField /\ s.char \in TableBytes) =>
                  /\ Utf8Decode(s.out) = <<Windows1252[s.char]>>
                  /\ s.char = 147 => s.out = <<226, 128, 156>>
                  /\ s.char = 150 => s.out = <<226, 128, 147>>

C11_Witness ==
    /\ pc = "returned"
    /\ fCompressed
    /\ units = <<147, 150>>
    /\ buf = <<226, 128, 156, 226, 128, 147>>

(* C12: both decoders return no error and every character that is not    *)
(* suppressed adds at least one byte to the output, surrogate code units   *)
(* and unmapped high bytes included.                                       *)
C12_NeverLossyToNothing ==
    \A p \in 1..Len(steps) :
        NotSuppressed(steps[p]) => steps[p].out # <<>>

Fresh == [isFieldChar |-> FALSE, fieldLevel |-> 0]

(* C16: on character values 0..0x7F the two decoders agree after every     *)
(* character: same output so far, same isFieldChar, same fieldLevel.       *)
C16_PathsAgree ==
    (pc # "translateText" /\ Range(units) \subseteq 0..127) =>
        LET done  == SubSeq(units, 1, Len(steps))
            other == IF fCompressed
                       THEN uncompressedLoop(EncodePiece(done, FALSE), 0, Fresh)
                       ELSE compressedLoop(EncodePiece(done, TRUE), 0, Fresh)
        IN  /\ other.out = buf
            /\ other.isFieldChar = isFieldChar
            /\ other.fieldLevel = fieldLevel

C16_Witness ==
    /\ pc = "returned"
    /\ fCompressed
    /\ units = <<19, 97, 20, 97>>
    /\ buf = <<97>>
    /\ fieldLevel = 1

(* C17: on the uncompressed path a code unit that is not suppressed is     *)
(* emitted as the one scalar value it is: one ASCII byte up to 0x7F, the   *)
(* UTF-8 form of the unit itself above (0x0093 gives U+0093).              *)
C17_UncompressedTranslation ==
    ~fCompressed =>
        \A p \in 1..Len(steps) :
            LET s == steps[p]
            IN  (NotSuppressed(s) /\ s.char # TableSep) =>
                  /\ s.char <= 127 => s.out = <<s.char>>
                  /\ s.char > 127 => Utf8Decode(s.out) = <<s.char>>

(* What the GBK decoder made of one byte, if it made anything. *)
GbkDecoded(c) ==
    LET t == gbkTransform(c)
    IN  t.err = "nil" /\ t.nSrc > 0 /\ t.nDst > 0

(* C18: a byte 0x80..0xFF outside the fixed table yields the GBK decoder's *)
(* output when the byte is >= 0xA1 and the decoder succeeds, and the one   *)
(* raw byte otherwise.                                                     *)
C18_HighByteFallback ==
    fCompressed =>
        \A p \in 1..Len(steps) :
            LET s == steps[p]
            IN  (~s.wasField /\ s.char \in (128..255) \ TableBytes) =>
                  s.out = IF s.char >= 161 /\ GbkDecoded(s.char)
                            THEN gbkTransform(s.char).output
                            ELSE <<s.char>>

C18_Witness ==
    /\ pc = "returned"
    /\ fCompressed
    /\ units = <<128, 255>>
    /\ buf = <<128, 239, 191, 189>>

(* The bytes replaceCompressed maps: those it does not hand to the         *)
(* pass-through or fallback branch.                                        *)
MappedBytes ==
    {c \in AllBytes :
        replaceCompressed(c) #
            (IF c >= 128 THEN handleANSICharacter(c) ELSE <<c>>)}

(* C19 as stated: the fixed table has exactly 27 mappings, all for bytes   *)
(* in 0x82..0x9C or 0x9F.                                                  *)
C19_Table27 ==
    (pc = "returned" /\ fCompressed /\ Len(units) = 1) =>
        /\ Cardinality(MappedBytes) = 27
        /\ MappedBytes \subseteq (130..156) \cup {159}

(* C19, amended: the fixed table has exactly 24 mappings, all for bytes in *)
(* 0x82..0x9C or 0x9F; every other byte takes the pass-through or fallback *)
(* branch.                                                                 *)
C19_Table24 ==
    (pc = "returned" /\ fCompressed /\ Len(units) = 1) =>
        /\ Cardinality(MappedBytes) = 24
        /\ MappedBytes \subseteq (130..156) \cup {159}
        /\ (NotSuppressed(steps[1]) /\ units[1] # TableSep
               /\ units[1] \notin MappedBytes)
              => buf = IF units[1] >= 128 THEN handleANSICharacter(units[1])
                                          ELSE <<units[1]>>

C19_Witness ==
    /\ pc = "returned"
    /\ fCompressed
    /\ units = <<159>>
    /\ buf = <<197, 184>>

(***************************************************************************)
(* Further claims about ParseDoc and getText (Spec).                       *)
(***************************************************************************)
(* C13: however ParseDoc ends, it has returned either the text reader with *)
(* a nil error or a nil reader with an error; a failure at any stage       *)
(* returns no text.                                                        *)
C13_AllOrNothing ==
    pc \in {"done", "panic"} =>
        \/ result.reader = "buf" /\ result.err = "nil"
        \/ result.reader = "nil" /\ result.err \notin {"nil", "none"}

(* C14: mscfb.New is opened over the reader itself when it is an           *)
(* io.ReaderAt, and over toMemoryBuffer's in-memory copy when it is not.   *)
C14_AnyReader ==
    pc # "ParseDoc" =>
        /\ isReaderAt => ra = "r"
        /\ (~isReaderAt /\ result.err # wrapError("read"))
              => (ra = "memoryBuffer" /\ pc # "panic")

(* C15: the character counts getText has used up to piece i add up to      *)
(* aCP[i+1] - aCP[0]; when it returns the text, to aCP[N] - aCP[0].        *)
C15_CharacterCoverage ==
    /\ (last.idx >= 0 /\ last.outcome = "ok")
          => /\ last.sum = last.cpNext - clx.cp0
             /\ cp = last.cpNext
             /\ i = last.idx + 1
    /\ (pc = "done" /\ result.reader = "buf")
          => /\ i = clx.nPcd
             /\ last.sum = cp - clx.cp0

C15_Witness ==
    /\ pc = "done"
    /\ result.reader = "buf"
    /\ clx = [nPcd |-> 2, cp0 |-> 0]
    /\ last.cp = 1
    /\ last.sum = 2

(* C20: no iteration of getText's loop asks for a negative length or       *)
(* panics; character boundaries that decrease end in an error return.      *)
C20_NoCrash ==
    last.idx >= 0 =>
        /\ last.n >= 0
        /\ last.outcome # "panic"
        /\ last.cpNext < last.cp
              => /\ pc = "done"
                 /\ result.reader = "nil"
                 /\ result.err \notin {"nil", "none"}

=============================================================================
